---- MODULE Spec2Model ----
(***************************************************************************)
(* CodePaste payment bot: the verify -> issue pipeline of bot.py           *)
(* (handle_photo, check_utr_exists, save_transaction), the extraction      *)
(* record of ocr.py (extract_text_from_image, process_payment_screenshot)  *)
(* and the license token codec and credit table of license_manager.py      *)
(* (generate_license_key, decrypt_license_key, calculate_credits).         *)
(*                                                                         *)
(* Amounts are in paise (hundredths of a rupee), confidence in percent,    *)
(* the clock in ticks of 1/TicksPerSecond second.                          *)
(***************************************************************************)
EXTENDS Integers, Sequences, FiniteSets, TLC

\* ------------------------------------------------------------------ bounds
\* Number of photo updates (requests) handled.
NumRequests == 2
\* Resolution of the modelled clock: ticks per second.
TicksPerSecond == 4
\* Characters outside the base64 alphabet inserted into a key string.
MaxJunk == 1

Requests == 1..NumRequests

\* --------------------------------------------------------------- constants
\* license_manager.py:42  time.time() + 300
VALIDITY == 300
\* license_manager.py:17  the secret the Fernet key is derived from
SECRET == "Lillian"
\* a secret other than the program's (a token produced elsewhere)
OTHER_SECRET == "Mallory"
\* Python's None for an amount (extract_amount returns None)
NoAmount == -1
\* Python's None for a string field
None == "None"

\* The transaction references, sender and recipient names screenshots carry.
UTRs == {"600821859735", "412345678901"}
Senders == {"Asha Rao"}
EXPECTED_RECIPIENT == "Codepaste Store"
Recipients == {EXPECTED_RECIPIENT, "Someone Else"}
\* Rs 10.00 (a credit package price)
AmountsSeen == {1000}

\* ------------------------------------------------- ocr.py: pure functions

\* calculate_confidence(amount, utr, sender), in percent
calculate_confidence(amount, utr, sender) ==
    (IF amount # NoAmount THEN 50 ELSE 0)
  + (IF utr # None THEN 40 ELSE 0)
  + (IF sender # None THEN 10 ELSE 0)

\* The text extract_text_from_image returns, by what the extractors find in
\* it: empty (OCR failed or found nothing; exceptions are swallowed into "")
\* or a text with each field found or not.
Texts ==
    [empty : {TRUE}, amount : {NoAmount}, utr : {None}, sender : {None},
     recipient : {None}]
    \cup
    [empty : {FALSE}, amount : AmountsSeen \cup {NoAmount},
     utr : UTRs \cup {None}, sender : Senders \cup {None},
     recipient : Recipients \cup {None}]

\* An exception raised inside a function body, by its class
Raises(exc) == [raised |-> exc]
DidRaise(outcome) == "raised" \in DOMAIN outcome

\* ocr.py:100-104  the OCR configurations tried on an image
NumConfigs == 3

\* What pytesseract.image_to_string does under one configuration: it returns
\* the text, or raises an error that is a rate-limit/overload signal, or
\* raises another error.
AttemptOutcomes == {"ok", "transient", "permanent"}
Attempts == [1..NumConfigs -> AttemptOutcomes]

\* Lines 91-112, the body of extract_text_from_image's try block: the
\* configurations are tried in order, each once, and the longest text kept
\* (every configuration that returns reads the text of the image); the
\* first error raised leaves the loop.
extract_text_try(attempts, text) ==
    IF \E i \in 1..NumConfigs : attempts[i] # "ok"
    THEN LET first == CHOOSE i \in 1..NumConfigs :
                 /\ attempts[i] # "ok"
                 /\ \A j \in 1..(i - 1) : attempts[j] = "ok"
         IN Raises(attempts[first])
    ELSE text

\* Lines 113-115: `except Exception as e` prints the error and returns "".
extract_text_from_image(attempts, text) ==
    LET outcome == extract_text_try(attempts, text)
    IN IF DidRaise(outcome)
       THEN [empty |-> TRUE, amount |-> NoAmount, utr |-> None,
             sender |-> None, recipient |-> None]
       ELSE outcome

\* The screenshots requests carry: the sender and the recipient are shown on
\* every payment screenshot, the amount and the reference may be unreadable.
Screenshots ==
    {t \in Texts : t.empty \/ (t.sender # None /\ t.recipient # None)}

\* The result dict of the extraction step.  has_rv: the dict has the key
\* 'recipient_valid'.  error: the error text, as a sequence of fragments.
FailureResult(err) ==
    [success |-> FALSE, error |-> err, amount |-> NoAmount, utr |-> None,
     sender |-> None, recipient |-> None, has_rv |-> FALSE,
     recipient_valid |-> FALSE, confidence |-> 0, needs_review |-> FALSE]

\* Faulty variant of process_payment_screenshot: needs_review is decided by
\* the confidence alone (line 249 without `or utr is None`).
process_payment_screenshot_confidence_only(text) ==
    IF text.empty
    THEN FailureResult(<<"Failed to extract text from image">>)
    ELSE LET confidence ==
                 calculate_confidence(text.amount, text.utr, text.sender)
         IN [success |-> TRUE, error |-> <<>>, amount |-> text.amount,
             utr |-> text.utr, sender |-> text.sender,
             recipient |-> text.recipient,
             has_rv |-> FALSE, recipient_valid |-> FALSE,
             confidence |-> confidence,
             needs_review |-> (confidence < 40)]

\* process_payment_screenshot(image_path), on the text the OCR returned
process_payment_screenshot(text) ==
    IF text.empty
    THEN FailureResult(<<"Failed to extract text from image">>)
    ELSE LET confidence ==
                 calculate_confidence(text.amount, text.utr, text.sender)
         IN [success |-> TRUE, error |-> <<>>, amount |-> text.amount,
             utr |-> text.utr, sender |-> text.sender,
             recipient |-> text.recipient,
             has_rv |-> FALSE, recipient_valid |-> FALSE,
             confidence |-> confidence,
             needs_review |-> (confidence < 40 \/ text.utr = None)]

\* The ExtractionRecord of a provider-backed extraction step: the same
\* record with recipientValid set by comparing the recipient with the
\* configured expected recipient.
provider_extraction_record(text) ==
    LET base == process_payment_screenshot(text)
    IN IF ~base.success THEN base
       ELSE [base EXCEPT !.has_rv = TRUE,
                         !.recipient_valid =
                             (text.recipient = EXPECTED_RECIPIENT)]

\* No result yet (before line 187, and after the handler has ended)
NoResult == FailureResult(<<>>)

\* --------------------------------------- license_manager.py: token codec

\* The amounts from Rs 1.00 to Rs 9.99 (in paise) whose float, multiplied by
\* 100 in IEEE-754 double arithmetic, falls just short of the whole number of
\* paise: float("4.10") * 100 is 409.99999999999994.
FloatShortPaise ==
    {113, 114, 115, 116, 201, 203, 205, 207, 226, 228, 230,
     232, 251, 253, 255, 402, 406, 410, 414, 427, 431, 435,
     439, 452, 456, 460, 464, 477, 481, 485, 489, 502, 506,
     510, 803, 804, 812, 820, 828, 829, 837, 845, 853, 854,
     862, 870, 878, 879, 887, 895, 903, 904, 912, 920, 928,
     929, 937, 945, 953, 954, 962, 970, 978, 979, 987, 995}

\* int(amount * 100) of line 110, for the float of an amount of Rs 1.00 to
\* Rs 9.99 with two decimals (what extract_amount returns below the tiers),
\* given in paise: int() truncates the double product.
IntTimes100(amount) ==
    IF amount \in FloatShortPaise THEN amount - 1 ELSE amount

\* calculate_credits(amount), amount in paise
calculate_credits(amount) ==
    IF amount >= 9900 THEN 13000
    ELSE IF amount >= 4900 THEN 7000
    ELSE IF amount >= 1000 THEN 1000
    ELSE IntTimes100(amount)

\* Fernet (authenticated encryption), symbolically: a ciphertext names the
\* key and the plaintext it was made from and the number of its bytes
\* altered since; the HMAC names the key and the ciphertext it was computed
\* over.
FernetMac(k, ct) == [key |-> k, over |-> ct]

\* base64.urlsafe_b64encode: the canonical text of the bytes (no character
\* outside the alphabet, unused trailing bits zero, no character cut off)
B64Encode(bytes) == [bytes |-> bytes, junk |-> 0, slack |-> 0, cut |-> 0]

\* base64.urlsafe_b64decode raises binascii.Error on a text whose length is
\* not that of whole 4-character groups (characters were cut off its end)
B64Malformed(b64) == b64.cut > 0

\* base64.urlsafe_b64decode (validate=False): characters outside the alphabet
\* are discarded and the unused trailing bits ignored
B64Decode(b64) == b64.bytes

\* cipher.encrypt: the Fernet token, itself the base64 text of ciphertext
\* and HMAC
FernetEncrypt(k, plaintext) ==
    LET ct == [key |-> k, pt |-> plaintext, flips |-> 0]
    IN B64Encode([ct |-> ct, mac |-> FernetMac(k, ct)])

\* Faulty variant of FernetVerifies: the HMAC is checked for the key alone,
\* not against the ciphertext.
FernetVerifiesKeyOnly(k, tok) == B64Decode(tok).mac.key = k

\* cipher.decrypt: the token text is decoded (urlsafe_b64decode again) and
\* the HMAC verified under the key before decryption
FernetVerifies(k, tok) ==
    B64Decode(tok).mac = FernetMac(k, B64Decode(tok).ct)

\* cipher.decrypt: the plaintext of a token that verifies
FernetDecrypt(tok) == B64Decode(tok).ct.pt

\* json.dumps of the license data / json.loads of the decrypted bytes
JsonDumps(data) == [kind |-> "json", data |-> data]
JsonParses(bytes) == bytes.kind = "json"
JsonLoads(bytes) == bytes.data

\* generate_license_key(amount, utr, credits) at clock t (ticks):
\* 'e' is int(time.time() + 300), in whole seconds
generate_license_key(amount, utr, credits, t) ==
    LET license_data ==
            [u |-> utr, c |-> credits,
             e |-> (t + VALIDITY * TicksPerSecond) \div TicksPerSecond]
        encrypted == FernetEncrypt(SECRET, JsonDumps(license_data))
    IN [prefix |-> "CP-", b64 |-> B64Encode(encrypted)]

InvalidKey(err) ==
    [valid |-> FALSE, error |-> err, utr |-> None, credits |-> 0,
     expires_at |-> 0]

\* Lines 66-92, the body of decrypt_license_key's try block, on the key
\* string at clock t (ticks, UTC) on a host whose local time is tz seconds
\* ahead of UTC.  datetime.fromtimestamp(e) is the naive LOCAL time of e,
\* datetime.utcnow() the naive UTC time of now: both are compared as seconds
\* on one axis.  A prefix other than CP- stays in the text that is decoded:
\* its characters shift the 4-character groups, and the decode raises or
\* gives bytes that are no Fernet token.
decrypt_try(license_key, t, tz) ==
    IF license_key.prefix \notin {"CP-", ""}
    THEN Raises("binascii.Error")
    ELSE IF B64Malformed(license_key.b64)
    THEN Raises("binascii.Error")
    ELSE LET encrypted == B64Decode(license_key.b64)
         IN IF ~FernetVerifies(SECRET, encrypted)
            THEN Raises("InvalidToken")
            ELSE LET decrypted == FernetDecrypt(encrypted)
                 IN IF ~JsonParses(decrypted)
                    THEN Raises("JSONDecodeError")
                    ELSE LET license_data == JsonLoads(decrypted)
                         IN IF "e" \notin DOMAIN license_data
                            THEN Raises("KeyError")
                            ELSE LET expires_at == license_data.e + tz
                                 IN IF t > expires_at * TicksPerSecond
                                    THEN [InvalidKey("License key expired")
                                            EXCEPT !.expires_at = expires_at]
                                    ELSE IF ~({"u", "c"} \subseteq
                                                DOMAIN license_data)
                                    THEN Raises("KeyError")
                                    ELSE [valid |-> TRUE, error |-> "",
                                          utr |-> license_data.u,
                                          credits |-> license_data.c,
                                          expires_at |-> expires_at]

\* Faulty variant of except_Exception: the exception is not caught.
except_Exception_reraise(outcome) == outcome

\* Lines 94-98: `except Exception as e` turns whatever the body raised into
\* the invalid result, its error text 'Invalid license key: ...'
except_Exception(outcome) ==
    IF DidRaise(outcome) THEN InvalidKey("Invalid license key") ELSE outcome

\* decrypt_license_key(license_key), lines 56-98
decrypt_license_key(license_key, t, tz) ==
    except_Exception(decrypt_try(license_key, t, tz))

NoKey == [prefix |-> "", b64 |-> B64Encode(FernetEncrypt("", JsonDumps(
            [u |-> None, c |-> 0, e |-> 0])))]

\* ------------------------------------------------ bot.py: the store access

\* What a store call meets: the store reachable, get_database() returning
\* None (ping failed), or the ping passing and the operation itself raising.
DbStates == {"up", "down", "error"}

\* check_utr_exists(utr) on the transactions collection db
check_utr_exists(utr, db, dbs) ==
    IF dbs = "down"
    THEN [exists |-> FALSE, error |-> "Database unavailable"]
    ELSE IF \E rec \in db : rec.utr = utr
         THEN [exists |-> TRUE, error |-> ""]
         ELSE [exists |-> FALSE, error |-> ""]

\* save_transaction(...): the collection after the call (insert_one, or
\* nothing when the store is unavailable; the False it then returns is not
\* read by handle_photo)
save_transaction(doc, db, dbs) ==
    IF dbs = "down" THEN db ELSE db \cup {doc}

\* ------------------------------------------------- bot.py: handle_photo

\* Line 192: an error text (a sequence of fragments) is reported as 'server
\* busy' when one of these occurs in it.
BUSY_MARKERS ==
    {"503", "429", "overloaded", "UNAVAILABLE", "RESOURCE_EXHAUSTED"}

IsBusyError(error_msg) ==
    \E i \in 1..Len(error_msg) : error_msg[i] \in BUSY_MARKERS

\* Python truthiness of `utr` / `amount`
UtrTruthy(utr) == utr \notin {None, ""}
AmountTruthy(amount) == amount \notin {NoAmount, 0}

\* Faulty variant of handle_photo_verdict: the amount check (lines 266-277)
\* comes before the duplicate guard (lines 249-263).
handle_photo_verdict_amount_first(res, db, dbs) ==
    IF ~res.success
    THEN [verdict |-> IF IsBusyError(res.error)
                      THEN "extraction_failed_busy"
                      ELSE "extraction_failed",
          guard |-> "none"]
    ELSE IF ~(res.has_rv /\ res.recipient_valid)
    THEN [verdict |-> "recipient_invalid", guard |-> "none"]
    ELSE IF res.needs_review
    THEN [verdict |-> "needs_review", guard |-> "none"]
    ELSE IF ~AmountTruthy(res.amount)
    THEN [verdict |-> "amount_missing", guard |-> "none"]
    ELSE IF UtrTruthy(res.utr) /\ dbs = "error"
    THEN [verdict |-> "raise", guard |-> "raised"]
    ELSE IF UtrTruthy(res.utr) /\ check_utr_exists(res.utr, db, dbs).exists
    THEN [verdict |-> "duplicate", guard |-> "found"]
    ELSE [verdict |-> "ready",
          guard |-> IF ~UtrTruthy(res.utr) THEN "none"
                    ELSE IF dbs = "down" THEN "unavailable"
                    ELSE "not_found"]

\* Lines 189-277: the branch handle_photo takes on an extraction result,
\* in the order of the code.  guard: what the duplicate guard answered.
handle_photo_verdict(res, db, dbs) ==
    IF ~res.success
    THEN [verdict |-> IF IsBusyError(res.error)
                      THEN "extraction_failed_busy"
                      ELSE "extraction_failed",
          guard |-> "none"]
    ELSE IF ~(res.has_rv /\ res.recipient_valid)
    THEN [verdict |-> "recipient_invalid", guard |-> "none"]
    ELSE IF res.needs_review
    THEN [verdict |-> "needs_review", guard |-> "none"]
    ELSE IF UtrTruthy(res.utr) /\ dbs = "error"
    THEN [verdict |-> "raise", guard |-> "raised"]
    ELSE IF UtrTruthy(res.utr) /\ check_utr_exists(res.utr, db, dbs).exists
    THEN [verdict |-> "duplicate", guard |-> "found"]
    ELSE LET guard == IF ~UtrTruthy(res.utr) THEN "none"
                      ELSE IF dbs = "down" THEN "unavailable"
                      ELSE "not_found"
         IN IF ~AmountTruthy(res.amount)
            THEN [verdict |-> "amount_missing", guard |-> guard]
            ELSE [verdict |-> "ready", guard |-> guard]

\* Faulty variant of AfterVerdict: the duplicate branch lacks its return
\* (line 263).
AfterVerdictNoReturn(verdict) ==
    IF verdict \in {"ready", "duplicate"} THEN "issue" ELSE "done"

\* Where handle_photo goes after the message of a verdict was sent: every
\* verdict but `ready` returns.
AfterVerdict(verdict) == IF verdict = "ready" THEN "issue" ELSE "done"

VARIABLES
    pc,            \* each request's position in handle_photo
    result,        \* the extraction result of the request
    transactions,  \* the store's transactions collection
    outcomes,      \* the terminal messages the user was shown, in order
    guard,         \* what check_utr_exists answered for the request
    prior,         \* when the guard was consulted for the request (a
                   \* payment with its amount shown), the record of a
                   \* request that had ended `issued` with the same utr
                   \* was in the store
    replayed,      \* when the guard was consulted for the request, the
                   \* store held a record with its reference and its
                   \* result had no amount
    license_key,   \* the license key generated for the request
    saved,         \* the request wrote its transaction record
    sent,          \* the license key was sent to the user
    ocr_attempts,  \* what the OCR configurations did for the request:
                   \* "clean" (none raised), "all_transient",
                   \* "transient_then_ok" or "other"
    raised,        \* an exception reached handle_photo's except clause or
                   \* left handle_photo
    now,           \* the clock (UTC), in ticks
    tz,            \* the decoding host's local time offset from UTC, seconds
    key,           \* codec: the license key string at hand
    origin,        \* codec: the generated key it comes from, and when
    decoded,       \* codec: what decrypt_license_key last returned, and when
    call,          \* the pure function last called, and its argument
    ret            \* what that call returned

pipeVars == <<pc, result, ocr_attempts, transactions, outcomes, guard, prior,
              replayed, license_key, saved, sent, raised>>
codecVars == <<now, tz, key, origin, decoded>>
calcVars == <<call, ret>>
vars == <<pipeVars, codecVars, calcVars>>

Idle ==
    /\ pc = [r \in Requests |-> "idle"]
    /\ result = [r \in Requests |-> NoResult]
    /\ ocr_attempts = [r \in Requests |-> "none"]
    /\ transactions = {}
    /\ outcomes = [r \in Requests |-> <<>>]
    /\ guard = [r \in Requests |-> "none"]
    /\ prior = [r \in Requests |-> FALSE]
    /\ replayed = [r \in Requests |-> FALSE]
    /\ license_key = [r \in Requests |-> NoKey]
    /\ saved = [r \in Requests |-> FALSE]
    /\ sent = [r \in Requests |-> FALSE]
    /\ raised = [r \in Requests |-> FALSE]

CodecIdle ==
    /\ key = NoKey
    /\ origin = [key |-> NoKey, at |-> 0]
    /\ decoded = [res |-> InvalidKey("not decoded"), at |-> -1]

CalcIdle ==
    /\ call = [fn |-> "none"]
    /\ ret = None

Init == Idle /\ CodecIdle /\ CalcIdle /\ now = 0 /\ tz = 0

\* Control moves to label.  The handler's locals end with it at "done", and
\* the except clause (lines 350-357) reads none of them.
Goto(r, label) ==
    /\ pc' = [pc EXCEPT ![r] = label]
    /\ result' = [result EXCEPT ![r] =
                      IF label \in {"done", "except"} THEN NoResult ELSE @]
    /\ ocr_attempts' = [ocr_attempts EXCEPT ![r] =
                      IF label \in {"done", "except"} THEN "none" ELSE @]
Show(r, message) == outcomes' = [outcomes EXCEPT ![r] = Append(@, message)]
Raise(r) == raised' = [raised EXCEPT ![r] = TRUE]

\* Lines 155-165: the update arrives and the photo is forwarded to the admin;
\* a failure to forward is logged and handling goes on.
Forward(r) ==
    /\ pc[r] = "idle"
    /\ Goto(r, "processing_msg")
    /\ UNCHANGED <<transactions, outcomes, guard, prior, replayed, license_key,
                   saved, sent, raised, codecVars, calcVars>>

\* Line 168: the 'Processing your screenshot' reply, outside the try block:
\* when it raises, the exception leaves handle_photo and error_handler
\* (lines 367-369) logs it.
ProcessingMsg(r) ==
    /\ pc[r] = "processing_msg"
    /\ \E ok \in BOOLEAN :
         IF ok THEN Goto(r, "download") /\ UNCHANGED raised
               ELSE Goto(r, "done") /\ Raise(r)
    /\ UNCHANGED <<transactions, outcomes, guard, prior, replayed, license_key,
                   saved, sent, codecVars, calcVars>>

\* Lines 172-183: get_file and download_to_drive
Download(r) ==
    /\ pc[r] = "download"
    /\ \E ok \in BOOLEAN :
         IF ok THEN Goto(r, "ocr") /\ UNCHANGED raised
               ELSE Goto(r, "except") /\ Raise(r)
    /\ UNCHANGED <<transactions, outcomes, guard, prior, replayed, license_key,
                   saved, sent, codecVars, calcVars>>

\* What the OCR configurations did on an image whose text is `text`, as the
\* claims about them distinguish it: none raised; all raised a
\* rate-limit/overload signal; some raised such a signal, none another
\* error, and the last one returned the text of a readable image.
AttemptsClass(attempts, text) ==
    IF \A i \in 1..NumConfigs : attempts[i] = "ok" THEN "clean"
    ELSE IF \A i \in 1..NumConfigs : attempts[i] = "transient"
    THEN "all_transient"
    ELSE IF /\ \A i \in 1..NumConfigs : attempts[i] # "permanent"
            /\ attempts[NumConfigs] = "ok"
            /\ ~text.empty
    THEN "transient_then_ok"
    ELSE "other"

\* What process_payment_screenshot (which reads the image by
\* extract_text_from_image) returns, over the screenshots and what the OCR
\* configurations do on them
OcrOutcomes ==
    {[result |-> process_payment_screenshot(
                     extract_text_from_image(attempts, text)),
      attempts |-> AttemptsClass(attempts, text)] :
        text \in Screenshots, attempts \in Attempts}

\* Lines 186-187: result = process_payment_screenshot(file_path), of ocr.py
Ocr(r) ==
    /\ pc[r] = "ocr"
    /\ \E o \in OcrOutcomes :
         /\ result' = [result EXCEPT ![r] = o.result]
         /\ ocr_attempts' = [ocr_attempts EXCEPT ![r] = o.attempts]
    /\ pc' = [pc EXCEPT ![r] = "decide"]
    /\ UNCHANGED <<transactions, outcomes, guard, prior, replayed,
                   license_key, saved, sent, raised, codecVars, calcVars>>

\* Lines 186-187 with an extraction step that returns the ExtractionRecord
\* (recipientValid included)
ProviderOcr(r) ==
    /\ pc[r] = "ocr"
    /\ \E text \in Screenshots :
         result' = [result EXCEPT ![r] = provider_extraction_record(text)]
    /\ ocr_attempts' = [ocr_attempts EXCEPT ![r] = "clean"]
    /\ pc' = [pc EXCEPT ![r] = "decide"]
    /\ UNCHANGED <<transactions, outcomes, guard, prior, replayed,
                   license_key, saved, sent, raised, codecVars, calcVars>>

\* Lines 189-287: the checks on the result, the duplicate guard, and the
\* message of the branch taken (an edit_text that may raise).
Decide(r) ==
    /\ pc[r] = "decide"
    /\ \E dbs \in DbStates, ok \in BOOLEAN :
         LET v == handle_photo_verdict(result[r], transactions, dbs)
         IN /\ guard' = [guard EXCEPT ![r] = v.guard]
            /\ prior' = [prior EXCEPT ![r] =
                   /\ v.guard # "none"
                   /\ AmountTruthy(result[r].amount)
                   /\ \E rec \in transactions :
                        /\ rec.utr = result[r].utr
                        /\ pc[rec.id] = "done"
                        /\ outcomes[rec.id] = <<"issued">>]
            /\ replayed' = [replayed EXCEPT ![r] =
                   /\ v.guard # "none"
                   /\ ~AmountTruthy(result[r].amount)
                   /\ \E rec \in transactions : rec.utr = result[r].utr]
            /\ IF v.verdict = "raise" \/ ~ok
               THEN Goto(r, "except") /\ Raise(r) /\ UNCHANGED outcomes
               ELSE /\ Goto(r, AfterVerdict(v.verdict))
                    /\ IF v.verdict = "ready" THEN UNCHANGED outcomes
                       ELSE Show(r, v.verdict)
                    /\ UNCHANGED raised
    /\ UNCHANGED <<transactions, license_key, saved, sent, codecVars, calcVars>>

\* Lines 289-302: calculate_credits, generate_license_key, save_transaction
Issue(r) ==
    /\ pc[r] = "issue"
    /\ \E dbs \in DbStates :
         LET amount == result[r].amount
             utr == result[r].utr
             credits == calculate_credits(amount)
             doc == [utr |-> utr, amount |-> amount, credits |-> credits,
                     id |-> r]
         IN /\ license_key' = [license_key EXCEPT ![r] =
                   generate_license_key(amount, utr, credits, now)]
            /\ IF dbs = "error"
               THEN /\ Goto(r, "except") /\ Raise(r)
                    /\ UNCHANGED <<transactions, saved>>
               ELSE /\ transactions' = save_transaction(doc, transactions, dbs)
                    /\ saved' = [saved EXCEPT ![r] = (dbs = "up")]
                    /\ Goto(r, "reply")
                    /\ UNCHANGED raised
    /\ UNCHANGED <<outcomes, guard, prior, replayed, sent, codecVars,
                   calcVars>>

\* Lines 304-324: three replies; the second (line 314) carries the key.
\* n of them are sent before one raises.
Reply(r) ==
    /\ pc[r] = "reply"
    /\ \E n \in 0..3 :
         /\ sent' = [sent EXCEPT ![r] = (n >= 2)]
         /\ IF n >= 2 THEN Show(r, "issued") ELSE UNCHANGED outcomes
         /\ IF n = 3 THEN Goto(r, "notify") /\ UNCHANGED raised
                     ELSE Goto(r, "except") /\ Raise(r)
    /\ UNCHANGED <<transactions, guard, prior, replayed, license_key, saved,
                   codecVars, calcVars>>

\* Lines 326-348: the admin notification; a failure is logged.
NotifyAdmin(r) ==
    /\ pc[r] = "notify"
    /\ Goto(r, "done")
    /\ UNCHANGED <<transactions, outcomes, guard, prior, replayed, license_key,
                   saved, sent, raised, codecVars, calcVars>>

\* Lines 350-357: the except clause tells the user of a processing error;
\* when that edit_text raises too, the exception leaves handle_photo.
Except(r) ==
    /\ pc[r] = "except"
    /\ \E ok \in BOOLEAN :
         IF ok THEN Show(r, "processing_error") ELSE UNCHANGED outcomes
    /\ Goto(r, "done")
    /\ UNCHANGED <<transactions, guard, prior, replayed, license_key, saved,
                   sent, raised, codecVars, calcVars>>

Next ==
    \E r \in Requests :
        \/ Forward(r)
        \/ ProcessingMsg(r)
        \/ Download(r)
        \/ Ocr(r)
        \/ ProviderOcr(r)
        \/ Decide(r)
        \/ Issue(r)
        \/ Reply(r)
        \/ NotifyAdmin(r)
        \/ Except(r)

Spec == Init /\ [][Next]_vars

\* ------------------------------------------- the token codec on its own

\* Hosts: UTC-5, UTC, UTC+5:30 (local time minus UTC, in seconds)
TzOffsets == {-18000, 0, 19800}
\* The credits of the packages (calculate_credits)
CreditValues == {1000, 7000}
\* The instants after issuance (whole seconds, then every tick of that
\* second) at which a key is looked at
ObservedSeconds == {0, 299, 300, 301, 300 + 19800, 301 + 19800}
Instants ==
    {sec * TicksPerSecond + h : sec \in ObservedSeconds,
                                h \in 0..(TicksPerSecond - 1)}

CodecInit ==
    /\ Idle /\ CodecIdle /\ CalcIdle
    /\ now \in 0..(TicksPerSecond - 1)
    /\ tz \in TzOffsets

Undecoded == decoded.at = -1

\* The bot issues a key (lines 24-53).
Generate ==
    /\ key = NoKey /\ Undecoded
    /\ \E amount \in AmountsSeen, utr \in UTRs, credits \in CreditValues :
         key' = generate_license_key(amount, utr, credits, now)
    /\ origin' = [key |-> key', at |-> now]
    /\ UNCHANGED <<now, tz, decoded, pipeVars, calcVars>>

\* Time passes.
Tick ==
    /\ key # NoKey /\ Undecoded
    /\ \E d \in Instants : origin.at + d > now /\ now' = origin.at + d
    /\ UNCHANGED <<tz, key, origin, decoded, pipeVars, calcVars>>

\* The key is handed on without its CP- prefix.
StripPrefix ==
    /\ key # NoKey /\ Undecoded /\ key.prefix = "CP-"
    /\ key' = [key EXCEPT !.prefix = ""]
    /\ UNCHANGED <<now, tz, origin, decoded, pipeVars, calcVars>>

\* A character outside the base64 alphabet (a line break, a space) is
\* inserted into the key string.
InsertJunk ==
    /\ key # NoKey /\ Undecoded /\ key.b64.junk < MaxJunk
    /\ key' = [key EXCEPT !.b64.junk = @ + 1]
    /\ UNCHANGED <<now, tz, origin, decoded, pipeVars, calcVars>>

\* The last character before the padding is replaced by one that differs in
\* the bits the decoder does not use.
FlipSlack ==
    /\ key # NoKey /\ Undecoded /\ key.b64.slack = 0
    /\ key' = [key EXCEPT !.b64.slack = 1]
    /\ UNCHANGED <<now, tz, origin, decoded, pipeVars, calcVars>>

\* The key string is re-encoded with a character outside the alphabet
\* inserted into the Fernet token text it wraps.
InsertInnerJunk ==
    /\ key # NoKey /\ Undecoded /\ key.b64.bytes.junk < MaxJunk
    /\ key' = [key EXCEPT !.b64.bytes.junk = @ + 1]
    /\ UNCHANGED <<now, tz, origin, decoded, pipeVars, calcVars>>

\* A byte of the ciphertext is altered (the HMAC stays as it was).
AlterCiphertext ==
    /\ key # NoKey /\ Undecoded /\ key.b64.bytes.bytes.ct.flips = 0
    /\ key' = [key EXCEPT !.b64.bytes.bytes.ct.flips = 1]
    /\ UNCHANGED <<now, tz, origin, decoded, pipeVars, calcVars>>

\* A key for the same reference and more credits, made with the same code
\* under another secret.
ForgeOtherSecret ==
    /\ key # NoKey /\ Undecoded
    /\ LET claims == JsonLoads(FernetDecrypt(B64Decode(origin.key.b64)))
       IN key' = [prefix |-> "CP-",
                  b64 |-> B64Encode(FernetEncrypt(OTHER_SECRET,
                             JsonDumps([claims EXCEPT !.c = 13000])))]
    /\ UNCHANGED <<now, tz, origin, decoded, pipeVars, calcVars>>

\* The plaintexts a token made under the program's secret by other code may
\* carry: bytes that are no JSON, and license data lacking a key.
MalformedPayloads ==
    LET claims == JsonLoads(FernetDecrypt(B64Decode(origin.key.b64)))
    IN {[kind |-> "text", data |-> <<>>],
        JsonDumps([u |-> claims.u, c |-> claims.c]),
        JsonDumps([c |-> claims.c, e |-> claims.e])}

\* The malformed strings made of the key string k: k under another prefix,
\* k with its last character cut off, and the tokens made under the
\* program's secret around a malformed plaintext.
MalformedKeys(k) ==
    {[k EXCEPT !.prefix = "XX-"], [k EXCEPT !.b64.cut = 1]}
    \cup {[prefix |-> "CP-",
           b64 |-> B64Encode(FernetEncrypt(SECRET, plaintext))] :
             plaintext \in MalformedPayloads}

\* decrypt_license_key is called on a malformed string (lines 56-98).
DecryptMalformed ==
    /\ key # NoKey /\ Undecoded
    /\ \E k \in MalformedKeys(key) :
         /\ key' = k
         /\ decoded' = [res |-> decrypt_license_key(k, now, tz), at |-> now]
    /\ UNCHANGED <<now, tz, origin, pipeVars, calcVars>>

\* decrypt_license_key(key) is called (lines 56-98).
Decrypt ==
    /\ key # NoKey /\ Undecoded
    /\ decoded' = [res |-> decrypt_license_key(key, now, tz), at |-> now]
    /\ UNCHANGED <<now, tz, key, origin, pipeVars, calcVars>>

CodecNext ==
    \/ Generate
    \/ Tick
    \/ StripPrefix
    \/ InsertJunk
    \/ FlipSlack
    \/ InsertInnerJunk
    \/ AlterCiphertext
    \/ ForgeOtherSecret
    \/ DecryptMalformed
    \/ Decrypt

CodecSpec == CodecInit /\ [][CodecNext]_vars

\* ------------------------------------------- the pure functions on their own

\* Amounts extract_amount returns (1 <= amount <= 100000, at most two
\* decimals), in paise: every amount below the first tier, and amounts at
\* and around the tier thresholds.
SmallPaise == 100..999
TierPaise == {1000, 1001, 4899, 4900, 4901, 9899, 9900, 9901, 10000000}

\* calculate_credits(amount) is called (license_manager.py lines 101-110).
CallCredits ==
    /\ \E amount \in SmallPaise \cup TierPaise :
         /\ call' = [fn |-> "calculate_credits", amount |-> amount]
         /\ ret' = calculate_credits(amount)
    /\ UNCHANGED <<pipeVars, codecVars>>

\* process_payment_screenshot is called on an image whose text is `text`
\* (ocr.py lines 223-260).
CallProcess ==
    /\ \E text \in Texts :
         /\ call' = [fn |-> "process_payment_screenshot", text |-> text]
         /\ ret' = process_payment_screenshot(text)
    /\ UNCHANGED <<pipeVars, codecVars>>

CalcNext ==
    \/ CallCredits
    \/ CallProcess

CalcSpec == Init /\ [][CalcNext]_vars

\* ------------------------------------------------------------ properties

\* The claims (u, c, e) a key string was generated with
KeyClaims(k) == JsonLoads(FernetDecrypt(B64Decode(k.b64)))

\* The Fernet token (ciphertext and HMAC) a key string carries, under both
\* of its base64 layers
RawToken(k) == B64Decode(B64Decode(k.b64))

Shown(r, message) == \E i \in 1..Len(outcomes[r]) : outcomes[r][i] = message

\* The terminal outcomes of the pipeline; a failed extraction is reported as
\* 'server busy' or as 'verification failed'.
TerminalOutcomes ==
    {"extraction_failed", "extraction_failed_busy", "recipient_invalid",
     "needs_review", "duplicate", "amount_missing", "issued"}
NotIssuedOutcomes == TerminalOutcomes \ {"issued"}

\* C1: a request whose duplicate-guard lookup met an unreachable store
\* generates no license key and sends none.
C1_UnavailableGuardStops ==
    \A r \in Requests :
        guard[r] = "unavailable" => license_key[r] = NoKey /\ ~sent[r]

\* C2: the store holds at most one transaction record per transaction
\* reference, and at most one license key is sent per transaction reference.
C2_AtMostOnePerRef ==
    \A u \in UTRs :
        /\ Cardinality({rec \in transactions : rec.utr = u}) <= 1
        /\ Cardinality({r \in Requests :
               sent[r] /\ KeyClaims(license_key[r]).u = u}) <= 1

\* C3: a request for a payment whose reference an earlier request was
\* issued a key for, its record persisted before this request's guard
\* lookup, generates no key, writes no record and, when it ends without an
\* exception, was told `duplicate`.
C3_SecondIsDuplicate ==
    \A r \in Requests :
        prior[r] =>
            /\ license_key[r] = NoKey
            /\ ~saved[r]
            /\ (pc[r] = "done" /\ ~raised[r]) => outcomes[r] = <<"duplicate">>

\* C4: a request that has ended was shown exactly one terminal outcome, one
\* of the pipeline's.
C4_ExactlyOneOutcome ==
    \A r \in Requests :
        pc[r] = "done" =>
            /\ Len(outcomes[r]) = 1
            /\ outcomes[r][1] \in TerminalOutcomes

\* C5: a request shown extraction_failed, recipient_invalid, needs_review,
\* duplicate or amount_missing generated no license key and wrote no
\* transaction record.
C5_OnlyIssuedWrites ==
    \A r \in Requests :
        (\E m \in NotIssuedOutcomes : Shown(r, m)) =>
            /\ license_key[r] = NoKey
            /\ ~saved[r]
            /\ ~\E rec \in transactions : rec.id = r

\* C5 witness: with a record in the store, a request ended in `duplicate`
\* (the guard was consulted and the branch returned).
C5_Witness ==
    \E r \in Requests :
        /\ pc[r] = "done" /\ outcomes[r] = <<"duplicate">>
        /\ guard[r] = "found"
        /\ transactions # {}

\* C6: whenever a license key was sent to the user, the request's
\* transaction record, keyed by the key's reference, is in the store.
C6_SentKeyHasRecord ==
    \A r \in Requests :
        sent[r] =>
            \E rec \in transactions :
                rec.id = r /\ rec.utr = KeyClaims(license_key[r]).u

\* C7: a request whose process_payment_screenshot result has the amount and
\* the reference, names the expected recipient, has no prior record and
\* meets no exception goes on from the checks to issuing.
C7_IssuedReachable ==
    [][\A r \in Requests :
          ( /\ pc[r] = "decide" /\ pc'[r] # "decide"
            /\ result[r] \in
                 {process_payment_screenshot(t) : t \in Screenshots}
            /\ result[r].success
            /\ result[r].amount # NoAmount
            /\ result[r].utr # None
            /\ result[r].recipient = EXPECTED_RECIPIENT
            /\ ~\E rec \in transactions : rec.utr = result[r].utr
            /\ ~raised'[r] )
          => pc'[r] = "issue"]_vars

\* C8: a generated key decoded 301 seconds or more after it was issued is
\* invalid, with the expiry reason, whatever the host's timezone.
C8_ExpiredAfter301 ==
    ( /\ ~Undecoded /\ key = origin.key
      /\ decoded.at >= origin.at + (VALIDITY + 1) * TicksPerSecond )
    => /\ ~decoded.res.valid
       /\ decoded.res.error = "License key expired"

\* C9: a generated key decoded less than 300 seconds after it was issued is
\* valid and gives back its reference and credits, whatever the host's
\* timezone.
C9_RoundTrip ==
    ( /\ ~Undecoded /\ key = origin.key
      /\ decoded.at < origin.at + VALIDITY * TicksPerSecond )
    => /\ decoded.res.valid
       /\ decoded.res.utr = KeyClaims(origin.key).u
       /\ decoded.res.credits = KeyClaims(origin.key).c

\* C10 as stated: decrypt_license_key accepts only a string that is exactly
\* a generated key, with or without its CP- prefix.
C10_OnlyExactStrings ==
    (~Undecoded /\ decoded.res.valid)
    => key \in {origin.key, [origin.key EXCEPT !.prefix = ""]}

\* C10 as amended: decrypt_license_key accepts only a string that carries,
\* under its base64 encoding, exactly the authenticated Fernet token of a
\* generated key, and then returns that key's reference, credits and expiry;
\* a string whose ciphertext bytes were altered or that was made under
\* another secret is invalid.
C10_OnlyGeneratedBytes ==
    /\ (~Undecoded /\ decoded.res.valid) =>
          /\ key.prefix \in {"CP-", ""}
          /\ RawToken(key) = RawToken(origin.key)
          /\ decoded.res.utr = KeyClaims(origin.key).u
          /\ decoded.res.credits = KeyClaims(origin.key).c
          /\ decoded.res.expires_at = KeyClaims(origin.key).e + tz
    /\ ( /\ ~Undecoded
         /\ \/ RawToken(key).ct.flips > 0
            \/ RawToken(key).ct.key # SECRET )
       => ~decoded.res.valid

\* C10 witness: a key string that is not the generated string (no prefix, a
\* character outside the alphabet inserted) was decoded as valid.
C10_Witness ==
    /\ ~Undecoded /\ decoded.res.valid
    /\ key.prefix = "" /\ key.b64.junk > 0

\* The license data of the key string (what json.loads gives when the
\* plaintext is JSON)
KeyData(k) == JsonLoads(FernetDecrypt(B64Decode(k.b64)))

\* A step of decoding the key string k fails at clock t on a host tz seconds
\* ahead of UTC: the prefix is neither CP- nor absent, the base64 text is
\* malformed, the token does not authenticate under the secret, the plaintext
\* is no JSON, a claim key is missing, or the expiry comparison of line 82
\* finds the key expired.
DecodeStepFails(k, t, tz_) ==
    \/ k.prefix \notin {"CP-", ""}
    \/ B64Malformed(k.b64)
    \/ ~FernetVerifies(SECRET, B64Decode(k.b64))
    \/ ~JsonParses(FernetDecrypt(B64Decode(k.b64)))
    \/ ~({"u", "c", "e"} \subseteq DOMAIN KeyData(k))
    \/ t > (KeyData(k).e + tz_) * TicksPerSecond

TierCredits(amount) ==
    IF amount >= 9900 THEN 13000
    ELSE IF amount >= 4900 THEN 7000
    ELSE IF amount >= 1000 THEN 1000
    ELSE amount

\* C12: calculate_credits returns, for every amount, the credits of the tier
\* table.
C12_MatchesTierTable ==
    call.fn = "calculate_credits" => ret = TierCredits(call.amount)

\* C13: the extraction record's confidence is 50 for the amount, 40 for the
\* reference and 10 for the sender (in percent), and it needs review exactly
\* when the confidence is below 70 or the reference is absent.
C13_ReviewBelow70 ==
    (call.fn = "process_payment_screenshot" /\ ret.success) =>
        /\ ret.confidence =
              (IF call.text.amount # NoAmount THEN 50 ELSE 0)
            + (IF call.text.utr # None THEN 40 ELSE 0)
            + (IF call.text.sender # None THEN 10 ELSE 0)
        /\ ret.needs_review =
              (ret.confidence < 70 \/ call.text.utr = None)

\* C14: a request whose every OCR attempt failed with a rate-limit/overload
\* signal gets from the extraction step a failure whose error names that
\* class, and, when its message is delivered, is shown the 'server busy'
\* outcome.
C14_BusyWhenAllTransient ==
    [][\A r \in Requests :
          ( /\ pc[r] = "decide" /\ ocr_attempts[r] = "all_transient"
            /\ pc'[r] = "done" /\ ~raised'[r] )
          => /\ ~result[r].success
             /\ IsBusyError(result[r].error)
             /\ outcomes'[r] = <<"extraction_failed_busy">>]_vars

\* C15: when attempts fail with a rate-limit/overload signal and the last
\* attempt succeeds on an image whose text is readable, the extraction step
\* returns a successful result.
C15_LaterAttemptSucceeds ==
    \A r \in Requests :
        (pc[r] = "decide" /\ ocr_attempts[r] = "transient_then_ok")
            => result[r].success

\* The terminal condition a successful extraction result reaches by the
\* priority order recipient_invalid, needs_review, duplicate,
\* amount_missing (`ready` when it satisfies none), the store holding the
\* transactions db.
PriorityOutcome(res, db) ==
    IF ~(res.has_rv /\ res.recipient_valid) THEN "recipient_invalid"
    ELSE IF res.needs_review THEN "needs_review"
    ELSE IF res.utr # None /\ \E rec \in db : rec.utr = res.utr
    THEN "duplicate"
    ELSE IF res.amount \in {NoAmount, 0} THEN "amount_missing"
    ELSE "ready"

C17_RefAndAmountPresent ==
    /\ \A r \in Requests :
          pc[r] = "issue" =>
              /\ result[r].utr \notin {None, ""}
              /\ result[r].amount \notin {NoAmount, 0}
    /\ \A r \in Requests :
          license_key[r] # NoKey =>
              /\ KeyClaims(license_key[r]).u \notin {None, ""}
              /\ KeyClaims(license_key[r]).c > 0
    /\ \A rec \in transactions :
          /\ rec.utr \notin {None, ""}
          /\ rec.amount \notin {NoAmount, 0}

\* C17 witness: a request generated its key and wrote its record.
C17_Witness ==
    \E r \in Requests :
        /\ license_key[r] # NoKey /\ saved[r]
        /\ \E rec \in transactions :
              rec.id = r /\ rec.utr = KeyClaims(license_key[r]).u

====
